---- MODULE Spec2Model ----
(***************************************************************************)
(* Model of the lab-report extraction engine of src/app.py: the range and  *)
(* value extractors, the line scan of parse_text_block, the narrative      *)
(* filter of analyze_file and the abnormality classifier of analyze_route. *)
(* Text is a TLA+ string handled character by character; a regular         *)
(* expression of the source is an operator that finds the match Python's   *)
(* backtracking matcher finds.  A Python float is the exact decimal it was *)
(* written as, [n |-> digits, k |-> number of fractional digits].          *)
(***************************************************************************)
EXTENDS Integers, Sequences, FiniteSets, TLC

VARIABLES raw_text, pc, lines, i, results, all_data, j, abnormals, seen_tests, rng, val

vars == <<raw_text, pc, lines, i, results, all_data, j, abnormals, seen_tests, rng, val>>

-----------------------------------------------------------------------------
(* Python values: None and optional results *)

None == <<>>
Some(x) == <<x>>

-----------------------------------------------------------------------------
(* Characters and strings *)

At(s, p) == IF p \in 1..Len(s) THEN SubSeq(s, p, p) ELSE ""
From(s, p) == IF p > Len(s) THEN "" ELSE SubSeq(s, p, Len(s))
Slice(s, a, b) == IF a >= b THEN "" ELSE SubSeq(s, a, b - 1)
CharsOf(s) == {SubSeq(s, p, p) : p \in 1..Len(s)}

DigitStr == "0123456789"
UpperStr == "ABCDEFGHIJKLMNOPQRSTUVWXYZ"
LowerStr == "abcdefghijklmnopqrstuvwxyz"
DigitChars == CharsOf(DigitStr)
UpperChars == CharsOf(UpperStr)
AlphaChars == UpperChars \cup CharsOf(LowerStr)
WordChars == AlphaChars \cup DigitChars \cup {"_"}
SpaceChars == {" ", "\t", "\n", "\r", "\f"}

IsDigit(c) == c \in DigitChars

Min(S) == CHOOSE x \in S : \A y \in S : x <= y
Max(S) == CHOOSE x \in S : \A y \in S : x >= y

LowerOf == [c \in UpperChars |-> At(LowerStr, CHOOSE p \in 1..Len(UpperStr) : At(UpperStr, p) = c)]

lower_char(c) == IF c \in UpperChars THEN LowerOf[c] ELSE c

(* str.lower(), character by character (halving keeps the recursion shallow) *)
RECURSIVE lower(_)
lower(s) ==
    IF Len(s) <= 1 THEN lower_char(s)
    ELSE lower(SubSeq(s, 1, Len(s) \div 2)) \o lower(SubSeq(s, Len(s) \div 2 + 1, Len(s)))

(* the first position at or after p whose character is not in C *)
RECURSIVE RunEnd(_, _, _)
RunEnd(s, p, C) == IF At(s, p) \in C THEN RunEnd(s, p + 1, C) ELSE p

HasAt(s, p, sub) == p >= 1 /\ p + Len(sub) - 1 <= Len(s) /\ SubSeq(s, p, p + Len(sub) - 1) = sub

(* Python's `sub in s` *)
Contains(s, sub) == \E p \in 1..(Len(s) + 1) : HasAt(s, p, sub)

(* str.strip() *)
strip(s) ==
    LET a == RunEnd(s, 1, SpaceChars)
        keep == {p \in a..Len(s) : At(s, p) \notin SpaceChars}
    IN IF keep = {} THEN "" ELSE SubSeq(s, a, Max(keep))

(* line 66: re.sub of every run of white space by one space *)
RECURSIVE collapse_spaces(_)
collapse_spaces(s) ==
    IF s = "" THEN ""
    ELSE IF At(s, 1) \in SpaceChars
         THEN " " \o collapse_spaces(From(s, RunEnd(s, 1, SpaceChars)))
         ELSE At(s, 1) \o collapse_spaces(From(s, 2))

(* str.replace(sub, "") for a non-empty sub: every occurrence, left to right *)
RECURSIVE remove_all(_, _)
remove_all(s, sub) ==
    IF Len(s) < Len(sub) THEN s
    ELSE IF HasAt(s, 1, sub) THEN remove_all(From(s, Len(sub) + 1), sub)
         ELSE At(s, 1) \o remove_all(From(s, 2), sub)

RECURSIVE Flatten(_)
Flatten(ss) == IF ss = <<>> THEN <<>> ELSE Head(ss) \o Flatten(Tail(ss))

FlatMap(seq, G(_)) == Flatten([k \in DOMAIN seq |-> G(seq[k])])

(* n, n-1, ..., m: the order in which a greedy quantifier gives characters back *)
Down(n, m) == [k \in 1..(n - m + 1) |-> n + 1 - k]

-----------------------------------------------------------------------------
(* float(): the decimal a numeric token denotes *)

RECURSIVE Pow10(_)
Pow10(k) == IF k <= 0 THEN 1 ELSE 10 * Pow10(k - 1)

RECURSIVE Norm(_, _)
Norm(n, k) == IF k > 0 /\ n % 10 = 0 THEN Norm(n \div 10, k - 1) ELSE [n |-> n, k |-> k]

F(n) == [n |-> n, k |-> 0]
Lt(a, b) == a.n * Pow10(b.k) < b.n * Pow10(a.k)
Gt(a, b) == Lt(b, a)

DigitValOf == [c \in DigitChars |-> (CHOOSE p \in 1..Len(DigitStr) : At(DigitStr, p) = c) - 1]

DigitVal(c) == DigitValOf[c]

RECURSIVE IntOf(_)
IntOf(s) == IF s = "" THEN 0 ELSE IntOf(SubSeq(s, 1, Len(s) - 1)) * 10 + DigitVal(At(s, Len(s)))

float(tok) ==
    LET d == RunEnd(tok, 1, DigitChars)
        frac == From(tok, d + 1)
    IN Norm(IntOf(Slice(tok, 1, d) \o frac), Len(frac))

(* the end (exclusive) of the longest numeric token, digits and optionally a point and
   digits, that starts at the digit at p *)
NumEnd(s, p) ==
    LET d == RunEnd(s, p, DigitChars)
    IN IF At(s, d) = "." /\ IsDigit(At(s, d + 1)) THEN RunEnd(s, d + 1, DigitChars) ELSE d

-----------------------------------------------------------------------------
(* extract_range *)

(* line 70: re.search of 1100 and two more digits, as a whole word *)
zip_guard(text) ==
    \E p \in 1..Len(text) :
        /\ HasAt(text, p, "1100")
        /\ IsDigit(At(text, p + 4)) /\ IsDigit(At(text, p + 5))
        /\ At(text, p - 1) \notin WordChars
        /\ At(text, p + 6) \notin WordChars

(* line 76: the unit class, and the ASCII members of the dash class; the three
   non-ASCII members of the source's class are outside the alphabet of the model *)
UnitChars == AlphaChars \cup {"%", "/"}
DashChars == {"-", "t", "o"}

(* line 76: the ends (exclusive) the first number group can take from p, in
   backtracking order: the whole number, then shorter fractions, then fewer digits *)
G1Ends(s, p) ==
    LET d == RunEnd(s, p, DigitChars)
        m == RunEnd(s, d + 1, DigitChars)
    IN (IF At(s, d) = "." /\ m > d + 1 THEN Down(m, d + 2) ELSE <<>>) \o Down(d, p + 1)

(* line 76: the places the middle part (spaces, then optionally up to five unit
   characters and spaces) can end at, from e1, in backtracking order; the dash
   character has to stand there *)
MidEnds(s, e1) ==
    LET unit(a) ==
            LET u == Min({5, RunEnd(s, a, UnitChars) - a})
                ws2(b) == Down(RunEnd(s, b, SpaceChars), b)
            IN FlatMap(Down(a + u, a), ws2) \o <<a>>
    IN FlatMap(Down(RunEnd(s, e1, SpaceChars), e1), unit)

(* line 76: a dash character at c, spaces, and the first digit of the second number *)
DashTail(s, c) == At(s, c) \in DashChars /\ IsDigit(At(s, RunEnd(s, c + 1, SpaceChars)))

(* the match of the dash pattern that starts at p: <<end of group 1, place of the dash>> *)
DashAt(s, p) ==
    LET pair(e1) == LET ends == MidEnds(s, e1) IN [k \in DOMAIN ends |-> <<e1, ends[k]>>]
        cands == FlatMap(G1Ends(s, p), pair)
        ok == {k \in DOMAIN cands : DashTail(s, cands[k][2])}
    IN IF ok = {} THEN None ELSE Some(cands[Min(ok)])

(* line 76: re.search of the dash pattern: the leftmost match, as its groups 1, 2 and 0 *)
dash_match(text) ==
    LET starts == {p \in 1..Len(text) : IsDigit(At(text, p)) /\ DashAt(text, p) # None}
    IN IF starts = {} THEN None
       ELSE LET p == Min(starts)
                m == DashAt(text, p)[1]
                q == RunEnd(text, m[2] + 1, SpaceChars)
            IN Some([g1 |-> Slice(text, p, m[1]),
                     g2 |-> Slice(text, q, NumEnd(text, q)),
                     g0 |-> Slice(text, p, NumEnd(text, q))])

(* lines 90 and 95: re.search, ignoring case, of sym or word, spaces, and a number:
   the leftmost match, as its groups 1 and 0 *)
bound_match(text, sym, word) ==
    LET low == lower(text)
        head(p) == IF HasAt(text, p, sym) THEN Len(sym)
                   ELSE IF HasAt(low, p, word) THEN Len(word) ELSE 0
        num(p) == RunEnd(text, p + head(p), SpaceChars)
        starts == {p \in 1..Len(text) : head(p) > 0 /\ IsDigit(At(text, num(p)))}
    IN IF starts = {} THEN None
       ELSE LET p == Min(starts)
            IN Some([g1 |-> Slice(text, num(p), NumEnd(text, num(p))),
                     g0 |-> Slice(text, p, NumEnd(text, num(p)))])

(* lines 100 and 104: re.search, ignoring case, of an opening bracket, spaces, the
   long or the short marker, spaces, and a closing bracket *)
marker_match(text, long, short) ==
    LET low == lower(text)
    IN \E p \in 1..Len(text), w \in {long, short} :
           LET a == RunEnd(text, p + 1, SpaceChars)
           IN /\ At(text, p) \in {"(", "["}
              /\ HasAt(low, a, w)
              /\ At(text, RunEnd(text, a + Len(w), SpaceChars)) \in {")", "]"}

NoRange == <<None, None, None>>

(* lines 79-87: only the second number is compared with 50000 *)
dash_result(m) ==
    IF Gt(float(m.g2), F(50000)) THEN NoRange
    ELSE <<Some(float(m.g1)), Some(float(m.g2)), Some(m.g0)>>

extract_range(text_in) ==
    IF text_in = "" THEN NoRange
    ELSE LET text == strip(collapse_spaces(text_in))
             dash == dash_match(text)
             less == bound_match(text, "<", "less than")
             more == bound_match(text, ">", "more than")
         IN IF zip_guard(text) THEN NoRange
            ELSE IF dash # None THEN dash_result(dash[1])
            ELSE IF less # None THEN <<Some(F(0)), Some(float(less[1].g1)), Some(less[1].g0)>>
            ELSE IF more # None THEN <<Some(float(more[1].g1)), Some(F(999999)), Some(more[1].g0)>>
            ELSE IF marker_match(text, "low", "l") THEN <<Some(F(999999)), Some(F(999999)), Some("(Low)")>>
            ELSE IF marker_match(text, "high", "h") THEN <<Some(F(-999999)), Some(F(-999999)), Some("(High)")>>
            ELSE NoRange

-----------------------------------------------------------------------------
(* extract_value *)

(* line 119: re.findall of the numeric tokens, from place p on *)
RECURSIVE findall_nums(_, _)
findall_nums(s, p) ==
    IF p > Len(s) THEN <<>>
    ELSE IF IsDigit(At(s, p))
         THEN <<Slice(s, p, NumEnd(s, p))>> \o findall_nums(s, NumEnd(s, p))
         ELSE findall_nums(s, p + 1)

keep_num_years(f) == Lt(f, F(10000))

keep_num_large(f) == Lt(f, F(2000)) \/ Gt(f, F(2100))

(* line 126: the tokens extract_value keeps *)
keep_num(f) == Lt(f, F(2000)) \/ (Gt(f, F(2100)) /\ Lt(f, F(10000)))

(* lines 113-117 *)
clean_source(text_source, range_str) ==
    remove_all(IF range_str # None THEN remove_all(text_source, range_str[1]) ELSE text_source, ",")

extract_value(text_source, range_str) ==
    IF text_source = "" THEN None
    ELSE LET nums == findall_nums(clean_source(text_source, range_str), 1)
             valid_nums == SelectSeq([k \in DOMAIN nums |-> float(nums[k])], keep_num)
         IN IF valid_nums = <<>> THEN None ELSE Some(valid_nums[1])

-----------------------------------------------------------------------------
(* The dictionary *)

TEST_MAPPING ==
    << [name |-> "TSH", aliases |-> <<"Thyroid Stimulating Hormone", "TSH", "TSH Ultra", "T.S.H">>],
       [name |-> "Total T3", aliases |-> <<"Total T3", "Triiodothyronine", "T3">>],
       [name |-> "Total T4", aliases |-> <<"Total T4", "Thyroxine", "T4">>],
       [name |-> "Vitamin D", aliases |-> <<"Vitamin D", "25-OH Vitamin D", "Total 25 OH Vitamin D">>],
       [name |-> "Vitamin B12", aliases |-> <<"Vitamin B12", "Cyanocobalamin", "Vit B12">>],
       [name |-> "HbA1c", aliases |-> <<"HbA1c", "Glycosylated Hemoglobin">>],
       [name |-> "Glucose Fasting", aliases |-> <<"Fasting Blood Sugar", "FBS", "Glucose Fasting">>],
       [name |-> "Glucose PP", aliases |-> <<"Post Prandial", "PPBS", "Glucose PP">>],
       [name |-> "Hemoglobin", aliases |-> <<"Hemoglobin", "Hb", "Haemoglobin">>],
       [name |-> "PCV", aliases |-> <<"PCV", "Packed Cell Volume", "Hematocrit", "HCT">>],
       [name |-> "RBC Count", aliases |-> <<"RBC Count", "Red Blood Cell Count", "Total RBC">>],
       [name |-> "MCV", aliases |-> <<"MCV">>],
       [name |-> "MCH", aliases |-> <<"MCH">>],
       [name |-> "MCHC", aliases |-> <<"MCHC">>],
       [name |-> "RDW", aliases |-> <<"RDW", "R.D.W">>],
       [name |-> "TLC", aliases |-> <<"TLC", "WBC", "Total Leucocyte Count", "White Blood Cell">>],
       [name |-> "Platelet Count", aliases |-> <<"Platelet Count", "PLT", "Platelets">>],
       [name |-> "Neutrophils", aliases |-> <<"Neutrophils", "Polymorphs">>],
       [name |-> "Lymphocytes", aliases |-> <<"Lymphocytes">>],
       [name |-> "Monocytes", aliases |-> <<"Monocytes">>],
       [name |-> "Eosinophils", aliases |-> <<"Eosinophils">>],
       [name |-> "Basophils", aliases |-> <<"Basophils">>],
       [name |-> "Urea", aliases |-> <<"Urea", "Blood Urea">>],
       [name |-> "Creatinine", aliases |-> <<"Creatinine", "Serum Creatinine">>],
       [name |-> "Uric Acid", aliases |-> <<"Uric Acid">>],
       [name |-> "Cholesterol", aliases |-> <<"Cholesterol", "Total Cholesterol">>],
       [name |-> "Triglycerides", aliases |-> <<"Triglycerides">>],
       [name |-> "HDL", aliases |-> <<"HDL Cholesterol", "H.D.L">>],
       [name |-> "LDL", aliases |-> <<"LDL Cholesterol", "L.D.L">>] >>

ALL_KEYWORDS == Flatten([k \in DOMAIN TEST_MAPPING |-> TEST_MAPPING[k].aliases])

Range(seq) == {seq[k] : k \in DOMAIN seq}

-----------------------------------------------------------------------------
(* parse_text_block: the lines and the keyword matcher *)

(* full_text.split("\n") *)
RECURSIVE split_lines(_)
split_lines(s) ==
    LET nl == {p \in 1..Len(s) : At(s, p) = "\n"}
    IN IF nl = {} THEN <<s>>
       ELSE <<Slice(s, 1, Min(nl))>> \o split_lines(From(s, Min(nl) + 1))

(* line 141 *)
kept_lines(full_text) ==
    LET split == split_lines(full_text)
        stripped == [k \in DOMAIN split |-> strip(split[k])]
        long(l) == Len(l) > 3
    IN SelectSeq(stripped, long)

ignore_terms == <<"Test Name", "Result", "Unit", "Reference", "Page", "Date", "Time", "Remark", "Method">>

(* line 149 *)
lower_terms == [k \in DOMAIN ignore_terms |-> lower(ignore_terms[k])]

is_junk(l) == LET low == lower(l) IN \E k \in DOMAIN lower_terms : Contains(low, lower_terms[k])

(* line 154: every run of characters that are not letters becomes one space *)
RECURSIVE text_for_matching(_)
text_for_matching(s) ==
    LET letters == {p \in 1..Len(s) : At(s, p) \in AlphaChars}
    IN IF s = "" THEN ""
       ELSE IF At(s, 1) \in AlphaChars THEN At(s, 1) \o text_for_matching(From(s, 2))
       ELSE " " \o (IF letters = {} THEN "" ELSE text_for_matching(From(s, Min(letters))))

safe_tokens == <<"Hb", "PCV", "TLC", "RBC", "MCV", "MCH", "MCHC", "RDW", "TSH">>

(* line 159: the token as a whole word, ignoring case *)
safe_search(low_safe, l, low) ==
    \E p \in 1..Len(l) :
        /\ HasAt(low, p, low_safe)
        /\ At(l, p - 1) \notin WordChars
        /\ At(l, p + Len(low_safe)) \notin WordChars

lower_safe == [k \in DOMAIN safe_tokens |-> lower(safe_tokens[k])]

(* lines 158-161: the first safe token found *)
exact_keyword(l) ==
    LET low == lower(l)
        hits == {k \in DOMAIN safe_tokens : safe_search(lower_safe[k], l, low)}
    IN IF hits = {} THEN None ELSE Some(safe_tokens[Min(hits)])

(* the default processor of process.extractOne: every character that is not a letter
   or a digit becomes a space, lower case, stripped *)
RECURSIVE spaced(_)
spaced(s) ==
    IF s = "" THEN ""
    ELSE IF Len(s) = 1 THEN (IF s \in AlphaChars \cup DigitChars THEN s ELSE " ")
    ELSE spaced(SubSeq(s, 1, Len(s) \div 2)) \o spaced(SubSeq(s, Len(s) \div 2 + 1, Len(s)))

full_process(s) == strip(lower(spaced(s)))

(* line 165: process.extractOne(query, ALL_KEYWORDS, score_cutoff=85) is a library call.
   Its score is 100 exactly for a choice whose processed form equals the processed
   query, and 0 for every choice when the processed query is empty; for any other
   query the model leaves the outcome open: no match, or any of the choices. *)
processed_keywords == [k \in DOMAIN ALL_KEYWORDS |-> full_process(ALL_KEYWORDS[k])]

extractOne(query) ==
    LET q == full_process(query)
        same == {k \in DOMAIN ALL_KEYWORDS : processed_keywords[k] = q}
    IN IF q = "" THEN {None}
       ELSE IF same # {} THEN {Some(ALL_KEYWORDS[Min(same)])}
       ELSE {None} \cup {Some(a) : a \in Range(ALL_KEYWORDS)}

(* lines 155-166: the keywords the matcher can select for a line *)
keywords(l) ==
    LET exact == exact_keyword(l)
    IN IF exact # None THEN {exact} ELSE extractOne(text_for_matching(l))

(* line 170: the first canonical name whose alias list holds the keyword *)
alias_sets == [k \in DOMAIN TEST_MAPPING |-> Range(TEST_MAPPING[k].aliases)]

std_name(keyword) ==
    LET owners == {k \in DOMAIN TEST_MAPPING : keyword \in alias_sets[k]}
    IN IF owners = {} THEN None ELSE Some(TEST_MAPPING[Min(owners)].name)

(* lines 176-177 *)
context_block(ls, n) == ls[n + 1] \o " " \o (IF n + 1 < Len(ls) THEN ls[n + 2] ELSE "")

-----------------------------------------------------------------------------
(* analyze_file: the narrative filter *)

biopsy_markers ==
    <<"biopsy", "histopathology", "specimen examined", "microscopic examination",
      "impression:", "clinical history", "department of pathology", "cytology">>

(* line 240 *)
match_count(text) ==
    LET lower_raw == lower(text)
    IN Cardinality({k \in DOMAIN biopsy_markers : Contains(lower_raw, biopsy_markers[k])})

(* line 244 *)
digit_count(text) == Cardinality({p \in 1..Len(text) : IsDigit(At(text, p))})

is_narrative_mut(text) ==
    match_count(text) >= 1 /\ Len(text) > 0 /\ 20 * digit_count(text) <= Len(text)

(* lines 241-246; digit_count / len < 0.05 is 20 * digit_count < len *)
is_narrative(text) ==
    match_count(text) >= 1 /\ Len(text) > 0 /\ 20 * digit_count(text) < Len(text)

-----------------------------------------------------------------------------
(* The program: analyze_file from the filter on, parse_text_block, analyze_route *)

valid_mut(v, r) == v # None

(* line 184 *)
valid(v, r) == v # None /\ r[1] # None

(* lines 185-191 *)
Measurement(name, v, r) ==
    [test_name |-> name, value |-> v, min |-> r[1], max |-> r[2], range |-> r[3]]

(* lines 232-246: the document is a narrative report, nothing is returned *)
Reject ==
    /\ pc = "filter"
    /\ is_narrative(raw_text)
    /\ all_data' = <<>>
    /\ pc' = "classify"
    /\ UNCHANGED <<raw_text, lines, i, results, j, abnormals, seen_tests, rng, val>>

(* lines 248, 137-143: parse_text_block starts *)
ParseStart ==
    /\ pc = "filter"
    /\ ~is_narrative(raw_text)
    /\ lines' = kept_lines(raw_text)
    /\ i' = 0
    /\ results' = <<>>
    /\ pc' = "scan"
    /\ UNCHANGED <<raw_text, all_data, j, abnormals, seen_tests, rng, val>>

Scanning == pc = "scan" /\ i < Len(lines)
line == lines[i + 1]

(* lines 148-151 *)
ScanJunk ==
    /\ Scanning
    /\ is_junk(line)
    /\ i' = i + 1
    /\ UNCHANGED <<raw_text, pc, lines, results, all_data, j, abnormals, seen_tests, rng, val>>

(* lines 154-168, 193: no keyword *)
ScanNoKeyword ==
    /\ Scanning
    /\ ~is_junk(line)
    /\ None \in keywords(line)
    /\ i' = i + 1
    /\ UNCHANGED <<raw_text, pc, lines, results, all_data, j, abnormals, seen_tests, rng, val>>

(* lines 169-173: the keyword is in no alias list *)
ScanLookupFail ==
    /\ Scanning
    /\ ~is_junk(line)
    /\ \E kw \in keywords(line) : kw # None /\ std_name(kw[1]) = None
    /\ i' = i + 1
    /\ UNCHANGED <<raw_text, pc, lines, results, all_data, j, abnormals, seen_tests, rng, val>>

(* lines 175-184, 193: the value or the range is missing *)
ScanDiscard ==
    /\ Scanning
    /\ ~is_junk(line)
    /\ \E kw \in keywords(line) : kw # None /\ std_name(kw[1]) # None
    /\ rng' = extract_range(context_block(lines, i))
    /\ val' = extract_value(context_block(lines, i), rng'[3])
    /\ ~valid(val', rng')
    /\ i' = i + 1
    /\ UNCHANGED <<raw_text, pc, lines, results, all_data, j, abnormals, seen_tests>>

ScanEmitSkip ==
    /\ Scanning
    /\ ~is_junk(line)
    /\ rng' = extract_range(context_block(lines, i))
    /\ val' = extract_value(context_block(lines, i), rng'[3])
    /\ valid(val', rng')
    /\ \E kw \in keywords(line) :
          /\ kw # None /\ std_name(kw[1]) # None
          /\ results' = Append(results, Measurement(std_name(kw[1])[1], val', rng'))
    /\ i' = IF i + 2 <= Len(lines) THEN i + 2 ELSE i + 1
    /\ UNCHANGED <<raw_text, pc, lines, all_data, j, abnormals, seen_tests>>

(* lines 175-193: a measurement is appended *)
ScanEmit ==
    /\ Scanning
    /\ ~is_junk(line)
    /\ rng' = extract_range(context_block(lines, i))
    /\ val' = extract_value(context_block(lines, i), rng'[3])
    /\ valid(val', rng')
    /\ \E kw \in keywords(line) :
          /\ kw # None /\ std_name(kw[1]) # None
          /\ results' = Append(results, Measurement(std_name(kw[1])[1], val', rng'))
    /\ i' = i + 1
    /\ UNCHANGED <<raw_text, pc, lines, all_data, j, abnormals, seen_tests>>

(* lines 144, 195, 248, 258: the loop ends and the results reach analyze_route *)
ScanReturn ==
    /\ pc = "scan"
    /\ i >= Len(lines)
    /\ all_data' = results
    /\ pc' = "classify"
    /\ UNCHANGED <<raw_text, lines, i, results, j, abnormals, seen_tests, rng, val>>

Classifying == pc = "classify" /\ j < Len(all_data)
item == all_data[j + 1]

is_low_mut(it) == ~Gt(it.value[1], it.min[1])

(* line 267 *)
is_low(it) == Lt(it.value[1], it.min[1])

(* line 268 *)
is_high(it) == Gt(it.value[1], it.max[1])

(* line 272 *)
status(it) == IF is_low(it) THEN "Low" ELSE "High"

unseen_mut(name, seen) == TRUE

(* line 271 *)
unseen(name, seen) == name \notin seen

(* lines 263-270: in range *)
ClassifyNormal ==
    /\ Classifying
    /\ ~(is_low(item) \/ is_high(item))
    /\ j' = j + 1
    /\ UNCHANGED <<raw_text, pc, lines, i, results, all_data, abnormals, seen_tests, rng, val>>

(* lines 270-271: out of range, the test name was already reported *)
ClassifyDuplicate ==
    /\ Classifying
    /\ is_low(item) \/ is_high(item)
    /\ ~unseen(item.test_name, seen_tests)
    /\ j' = j + 1
    /\ UNCHANGED <<raw_text, pc, lines, i, results, all_data, abnormals, seen_tests, rng, val>>

(* lines 270-274 *)
ClassifyAbnormal ==
    /\ Classifying
    /\ is_low(item) \/ is_high(item)
    /\ unseen(item.test_name, seen_tests)
    /\ abnormals' = Append(abnormals, [test_name |-> item.test_name, value |-> item.value,
                                       min |-> item.min, max |-> item.max,
                                       range |-> item.range, status |-> status(item)])
    /\ seen_tests' = seen_tests \cup {item.test_name}
    /\ j' = j + 1
    /\ UNCHANGED <<raw_text, pc, lines, i, results, all_data, rng, val>>

(* lines 276-279 *)
Respond ==
    /\ pc = "classify"
    /\ j >= Len(all_data)
    /\ pc' = "done"
    /\ UNCHANGED <<raw_text, lines, i, results, all_data, j, abnormals, seen_tests, rng, val>>

(* lines 180-181 on a window of its own *)
Extract ==
    /\ pc = "window"
    /\ rng' = extract_range(raw_text)
    /\ val' = extract_value(raw_text, rng'[3])
    /\ pc' = "extracted"
    /\ UNCHANGED <<raw_text, lines, i, results, all_data, j, abnormals, seen_tests>>

-----------------------------------------------------------------------------
(* The documents, windows and measurement lists the program is run on *)

MaxLines == 2
MaxToks == 2
MaxItems == 3

(* every sequence over S of length 1..n *)
SeqsUpTo(S, n) == UNION {[1..m -> S] : m \in 1..n}

RECURSIVE Join(_, _)
Join(seq, sep) ==
    IF seq = <<>> THEN ""
    ELSE IF Len(seq) = 1 THEN seq[1]
    ELSE seq[1] \o sep \o Join(Tail(seq), sep)

LineVocab ==
    { "Hemoglobin 13.5 (12.0-16.0)",
      "Hb 10.5 g/dL",
      "(12.0 - 16.0)",
      "Test Name Result Unit",
      "RBC Count 4.5 (4.0-5.5)",
      "TSH 5.5 (0.5-5.0)",
      "Date: 2023 Hemoglobin 13.5 (12.0-16.0)",
      "2023 Hemoglobin 13.5 (12.0-16.0)",
      " ab ",
      "Serum Creatinine level 1.2 (0.6-1.3)",
      "PCV 45",
      "Hb 9 (L)",
      "Biopsy remark: lung",
      "Cytology unit: ref 7" }

(* a line for which the model leaves the outcome of the fuzzy pass open *)
open_line(l) ==
    /\ ~is_junk(l)
    /\ exact_keyword(l) = None
    /\ Cardinality(extractOne(text_for_matching(l))) > 1

OpenVocab == {l \in LineVocab : Len(strip(l)) > 3 /\ open_line(strip(l))}
open_count(ls) == Cardinality({k \in DOMAIN ls : ls[k] \in OpenVocab})

(* the documents of up to MaxLines lines; with open, one of the lines may be open *)
LineDocs(open) ==
    {Join(ls, "\n") : ls \in {x \in SeqsUpTo(LineVocab, MaxLines) :
                                  open_count(x) <= (IF open THEN 1 ELSE 0)}}

(* the documents of the shape "<alias> <value> (<min>-<max>)" *)
ShapeNums == { <<"5.5", "0.5", "5.0">>, <<"13", "12.0", "16">>, <<"250000", "150000", "450000">> }
ShapeDoc(a, t) == a \o " " \o t[1] \o " (" \o t[2] \o "-" \o t[3] \o ")"
ShapeDocs(open) ==
    {ShapeDoc(a, t) : a \in {x \in Range(ALL_KEYWORDS) : open \/ ~open_line(x \o " ")},
                      t \in ShapeNums}

Docs == LineDocs(TRUE) \cup ShapeDocs(TRUE)
DeterminedDocs == LineDocs(FALSE) \cup ShapeDocs(FALSE)

WindowToks ==
    { "Hb", "13.5", "2023", "2000", "2100", "2500", "9999.9", "10000", "(12.0-16.0)",
      "60000-10", "10-60000", "50000-50000.1", "<5", "> 40", "(Low)", "[H]", "1,200",
      "12  -  16", "110002" }

Windows == {Join(ts, " ") : ts \in SeqsUpTo(WindowToks, MaxToks)}

(* the measurements parse_text_block makes of these lines, each as a last line *)
ClassifyLines ==
    { "Hb 11 (12-16)", "Hb 12 (12-16)", "Hb 16 (12-16)", "Hb 17 (12-16)",
      "TSH 11 (12-16)", "TSH 12 (12-16)", "TSH 16 (12-16)", "TSH 17 (12-16)",
      "TSH 14 (16-12)", "TSH 16 (16-12)" }

ItemOf(l) ==
    LET r == extract_range(l \o " ")
    IN Measurement(std_name(exact_keyword(l)[1])[1], extract_value(l \o " ", r[3]), r)

ClassifyItems == {ItemOf(l) : l \in ClassifyLines}

Start(text, at, data) ==
    /\ raw_text = text
    /\ pc = at
    /\ lines = <<>>
    /\ i = 0
    /\ results = <<>>
    /\ all_data = data
    /\ j = 0
    /\ abnormals = <<>>
    /\ seen_tests = {}
    /\ rng = NoRange
    /\ val = None

(* the text of a document has been read; the narrative filter is next *)
Init == \E d \in Docs : Start(d, "filter", <<>>)
InitDetermined == \E d \in DeterminedDocs : Start(d, "filter", <<>>)
InitExtract == \E w \in Windows : Start(w, "window", <<>>)
InitClassify == \E data \in SeqsUpTo(ClassifyItems, MaxItems) : Start("", "classify", data)

Next ==
    \/ Reject
    \/ ParseStart
    \/ ScanJunk
    \/ ScanNoKeyword
    \/ ScanLookupFail
    \/ ScanDiscard
    \/ ScanEmit
    \/ ScanReturn
    \/ ClassifyNormal
    \/ ClassifyDuplicate
    \/ ClassifyAbnormal
    \/ Respond

NextClassify == ClassifyNormal \/ ClassifyDuplicate \/ ClassifyAbnormal \/ Respond

Spec == Init /\ [][Next]_vars
SpecDetermined == InitDetermined /\ [][Next]_vars
SpecExtract == InitExtract /\ [][Extract]_vars
SpecClassify == InitClassify /\ [][NextClassify]_vars

-----------------------------------------------------------------------------
(* The claims *)

Names == {TEST_MAPPING[k].name : k \in DOMAIN TEST_MAPPING}
Le(a, b) == ~Lt(b, a)
OutOfRange(m) == Lt(m.value[1], m.min[1]) \/ Lt(m.max[1], m.value[1])
Core(m) == [test_name |-> m.test_name, value |-> m.value, min |-> m.min, max |-> m.max]

(* C1: for every configured alias A, the one-line document "A <value> (<min>-<max>)"
   parses to exactly one measurement: the canonical name owning A, <value>, <min>, <max>. *)
C1_AliasLineParses ==
    \A a \in Range(ALL_KEYWORDS), t \in ShapeNums :
        (pc = "done" /\ raw_text = ShapeDoc(a, t)) =>
            /\ Len(all_data) = 1
            /\ Core(all_data[1]) = [test_name |-> std_name(a)[1], value |-> Some(float(t[1])),
                                    min |-> Some(float(t[2])), max |-> Some(float(t[3]))]

(* C2, as claimed: an emitted measurement is strictly below min or strictly above max,
   never has a value equal to min or to max, and is Low exactly when value < min. *)
C2_StrictAsClaimed ==
    \A k \in DOMAIN abnormals :
        LET m == abnormals[k]
        IN /\ OutOfRange(m)
           /\ m.value # m.min /\ m.value # m.max
           /\ m.status = (IF Lt(m.value[1], m.min[1]) THEN "Low" ELSE "High")

(* C2, amended: an emitted measurement is strictly below min or strictly above max, is
   Low exactly when value < min and High otherwise, and when min <= max its value is
   neither min nor max. *)
C2_Strict ==
    \A k \in DOMAIN abnormals :
        LET m == abnormals[k]
        IN /\ OutOfRange(m)
           /\ Le(m.min[1], m.max[1]) => (m.value # m.min /\ m.value # m.max)
           /\ m.status = (IF Lt(m.value[1], m.min[1]) THEN "Low" ELSE "High")
           /\ m.status \in {"Low", "High"}

(* a value equal to min was passed over, a Low and a High were emitted, and Low won
   for a value both below min and above max *)
C2_Witness ==
    /\ pc = "done"
    /\ \E p \in DOMAIN all_data :
          /\ all_data[p].value = all_data[p].min
          /\ Le(all_data[p].min[1], all_data[p].max[1])
    /\ \E k \in DOMAIN abnormals : abnormals[k].status = "High"
    /\ \E k \in DOMAIN abnormals :
          /\ abnormals[k].status = "Low"
          /\ Lt(abnormals[k].max[1], abnormals[k].value[1])

(* the places of all_data whose measurement is the first out-of-range one of its name *)
FirstAbnormal ==
    {p \in DOMAIN all_data :
        /\ OutOfRange(all_data[p])
        /\ \A q \in 1..(p - 1) :
              all_data[q].test_name = all_data[p].test_name => ~OutOfRange(all_data[q])}

(* the k-th smallest element of a set of numbers *)
Kth(S, k) == CHOOSE x \in S : Cardinality({y \in S : y <= x}) = k

(* C3: the result holds, in input order, exactly the first out-of-range measurement of
   each test name: one entry per name, later ones of the name dropped. *)
C3_FirstPerName ==
    pc = "done" =>
        /\ Len(abnormals) = Cardinality(FirstAbnormal)
        /\ \A k \in DOMAIN abnormals : Core(abnormals[k]) = Core(all_data[Kth(FirstAbnormal, k)])
        /\ \A a, b \in DOMAIN abnormals : a # b => abnormals[a].test_name # abnormals[b].test_name

(* a later out-of-range measurement of a reported name, with another value, was dropped,
   and two names were reported *)
C3_Witness ==
    /\ pc = "done"
    /\ Len(abnormals) = 2
    /\ \E p, q \in DOMAIN all_data :
          /\ p < q
          /\ all_data[p].test_name = all_data[q].test_name
          /\ all_data[p].value # all_data[q].value
          /\ OutOfRange(all_data[p]) /\ OutOfRange(all_data[q])

Markers ==
    {"biopsy", "histopathology", "specimen examined", "microscopic examination",
     "impression:", "clinical history", "department of pathology", "cytology"}
Digits(text) == Cardinality({p \in 1..Len(text) : At(text, p) \in DigitChars})
Narrative(text) ==
    /\ 100 * Digits(text) < 5 * Len(text)
    /\ LET low == lower(text) IN \E m \in Markers : Contains(low, m)

(* C4: a text with a marker phrase (in any case) and fewer than 5% digits yields no
   measurement and is never parsed; any other text yields what parse_text_block
   returns for it. *)
C4_NarrativeFilter ==
    /\ pc = "scan" => ~Narrative(raw_text)
    /\ pc \in {"classify", "done"} =>
          IF Narrative(raw_text)
          THEN all_data = <<>> /\ lines = <<>> /\ results = <<>>
          ELSE all_data = results /\ lines = kept_lines(raw_text) /\ i = Len(lines)

(* a text with a marker, a digit and a test line that parses was rejected *)
C4_Witness ==
    /\ pc = "done"
    /\ Narrative(raw_text)
    /\ Contains(raw_text, "Hb 9 (L)")
    /\ all_data = <<>>

DateDoc == "Date: 2023 Hemoglobin 13.5 (12.0-16.0)"
YearDoc == "2023 Hemoglobin 13.5 (12.0-16.0)"
Hemoglobin135 ==
    [test_name |-> "Hemoglobin", value |-> Some(float("13.5")),
     min |-> Some(float("12.0")), max |-> Some(float("16.0"))]
NoYearValue ==
    \A k \in DOMAIN results :
        Lt(results[k].value[1], F(2000)) \/ Lt(F(2100), results[k].value[1])

(* C5, as claimed: "Date: 2023 Hemoglobin 13.5 (12.0-16.0)" yields Hemoglobin 13.5, and
   no reported value is a token of the year band 2000 to 2100. *)
C5_DateLineAsClaimed ==
    /\ (pc = "done" /\ raw_text = DateDoc) => (Len(all_data) = 1 /\ Core(all_data[1]) = Hemoglobin135)
    /\ NoYearValue

(* C5, amended: "2023 Hemoglobin 13.5 (12.0-16.0)" yields Hemoglobin 13.5, the same line
   after "Date: " is skipped as a junk line and yields nothing, and no reported value
   is a token of the year band 2000 to 2100. *)
C5_YearGuard ==
    /\ (pc = "done" /\ raw_text = YearDoc) => (Len(all_data) = 1 /\ Core(all_data[1]) = Hemoglobin135)
    /\ (pc = "done" /\ raw_text = DateDoc) => all_data = <<>>
    /\ NoYearValue

C5_Witness == pc = "done" /\ raw_text = YearDoc /\ Len(all_data) = 1

(* the numeric tokens extract_value looks at, as numbers *)
Tokens ==
    LET toks == findall_nums(clean_source(raw_text, rng[3]), 1)
    IN [k \in DOMAIN toks |-> float(toks[k])]

(* the result is the first token that P keeps, and absent when P keeps none *)
FirstKept(P(_)) ==
    LET kept == {k \in DOMAIN Tokens : P(Tokens[k])}
    IN val = (IF kept = {} THEN None ELSE Some(Tokens[Min(kept)]))

Between(f) == Lt(F(2100), f) /\ Lt(f, F(10000))
Large(f) == Le(F(10000), f)
AmendedKeep(f) == Lt(f, F(2000)) \/ Between(f)

(* C6, as claimed: extract_value rejects the tokens strictly between 2100 and 10000 and
   keeps those of 10000 or more: the value it returns is a token, is not strictly
   between 2100 and 10000 and has no token of 10000 or more before it, and a value
   is returned whenever there is a token of 10000 or more. *)
C6_FilterAsClaimed ==
    pc = "extracted" =>
        /\ val # None =>
              \E k \in DOMAIN Tokens :
                  /\ Tokens[k] = val[1]
                  /\ ~Between(val[1])
                  /\ \A q \in 1..(k - 1) : ~Large(Tokens[q])
        /\ (\E k \in DOMAIN Tokens : Large(Tokens[k])) => val # None

(* C6, amended: extract_value keeps the tokens below 2000 and those strictly between
   2100 and 10000, rejects those from 2000 to 2100 and those of 10000 or more, and
   returns the first token kept, absent when none. *)
C6_Filter == pc = "extracted" => FirstKept(AmendedKeep)

(* a token of 10000 or more and a year were passed over for a later token between
   2100 and 10000 *)
C6_Witness ==
    /\ pc = "extracted"
    /\ Len(Tokens) = 2
    /\ ~Lt(Tokens[1], F(2000))
    /\ val = Some(Tokens[2])
    /\ Lt(F(2100), val[1])

(* C7: a range extract_range returns from the dash pattern has neither bound above 50000. *)
C7_NoHugeBound ==
    (pc = "extracted" /\ rng[3] # None /\ IsDigit(At(rng[3][1], 1))) =>
        (Le(rng[1][1], F(50000)) /\ Le(rng[2][1], F(50000)))

(* C8: whatever keyword the matcher selects for the current line has a canonical name. *)
C8_LookupSucceeds ==
    (Scanning /\ ~is_junk(line)) =>
        \A kw \in keywords(line) : kw # None => std_name(kw[1]) # None

ScanStepOk ==
    /\ (pc = "filter" /\ pc' = "scan") => (i' = 0 /\ lines' = kept_lines(raw_text) /\ results' = <<>>)
    /\ (pc = "scan" /\ pc' = "scan") =>
          /\ i < Len(lines) /\ i' = i + 1 /\ lines' = lines
          /\ results' = results \/ (Len(results') = Len(results) + 1 /\ SubSeq(results', 1, Len(results)) = results)
    /\ (pc = "scan" /\ pc' # "scan") => (i = Len(lines) /\ all_data' = results)

(* C9: the scan ends: while the cursor is before the end the current line is junk or
   the matcher returns an answer (a keyword or none), so one of the five outcomes
   applies; every step moves the cursor forward by exactly one line, whatever the outcome, and
   appends at most one measurement; the scan starts at the first kept line and
   returns only when the cursor is at the end. *)
C9_ScanAdvances ==
    /\ [](pc = "scan" => (i <= Len(lines) /\ Len(results) <= i))
    /\ []((Scanning /\ ~is_junk(line)) => keywords(line) # {})
    /\ [][ScanStepOk]_vars

(* the second line served as the lookahead of the first (both measurements carry its
   range) and was then the current line itself *)
C9_Witness ==
    /\ pc = "done"
    /\ i = 2
    /\ Len(all_data) = 2
    /\ all_data[1].range = all_data[2].range
    /\ all_data[1].test_name # all_data[2].test_name

(* C10: every measurement in the result list has a canonical name of TEST_MAPPING, a
   value, a min and a max; and extract_range returns a min exactly when it returns a max. *)
C10_MeasurementsComplete ==
    /\ \A k \in DOMAIN results :
          /\ results[k].test_name \in Names
          /\ results[k].value # None
          /\ results[k].min # None
          /\ results[k].max # None
    /\ (rng[1] = None) = (rng[2] = None)

(* one line gave a measurement and the next, which has a value and no range, gave none *)
C10_Witness ==
    /\ pc = "scan"
    /\ i = 2
    /\ Len(results) = 1
    /\ val # None
    /\ rng = NoRange

====
